---- MODULE Spec2Model ----
(***************************************************************************)
(* pdmodels: declarative document schemas (DefinedDict) over plain         *)
(* dictionaries, with the operations get_document_errors,                  *)
(* is_document_valid, clean_document and update.                           *)
(*                                                                         *)
(* A Python value is a record [t, s, n, d, l]: t is the runtime type, s    *)
(* the payload of a str, n the payload of a number in tenths (so that the  *)
(* int 3 and the float 3.0 carry the same n, as 3 == 3.0 in Python), d the *)
(* items of a dict and l the items of a list.  A callable is a value with  *)
(* t = "callable" and its name in s.                                       *)
(*                                                                         *)
(* An operation of the library either returns or raises.  Operators that   *)
(* model a mutating method return [doc, exc]: the container after the call *)
(* (Python mutates it in place, also when the call raises part-way) and    *)
(* the name of the exception raised, "" when the call returned.  Operators *)
(* that model an error generator return [errs, exc]: the errors yielded    *)
(* before the generator finished or raised.                                *)
(***************************************************************************)
EXTENDS Integers, Sequences, FiniteSets, TLC

VARIABLES cls, document, op, arg, pre, flags, raised, errs, returned, steps, defn

vars == <<cls, document, op, arg, pre, flags, raised, errs, returned, steps, defn>>

-----------------------------------------------------------------------------
(* Python values *)

NoDict == [k \in {} |-> 0]

None == [t |-> "null", s |-> "", n |-> 0, d |-> NoDict, l |-> <<>>]

PyStr(x) == [t |-> "str", s |-> x, n |-> 0, d |-> NoDict, l |-> <<>>]

PyInt(i) == [t |-> "int", s |-> "", n |-> 10 * i, d |-> NoDict, l |-> <<>>]

PyFloat(tenths) == [t |-> "float", s |-> "", n |-> tenths, d |-> NoDict, l |-> <<>>]

PyBool(b) == [t |-> "bool", s |-> "", n |-> IF b THEN 10 ELSE 0, d |-> NoDict, l |-> <<>>]

PyDict(f) == [t |-> "dict", s |-> "", n |-> 0, d |-> f, l |-> <<>>]

\* a function of one parameter, by name
PyCallable(name) == [t |-> "callable", s |-> name, n |-> 0, d |-> NoDict, l |-> <<>>]

PyList(q) == [t |-> "list", s |-> "", n |-> 0, d |-> NoDict, l |-> q]

\* a datetime.datetime, by the seconds of its timestamp and its microsecond
PyDatetime(seconds, microsecond) ==
    [t |-> "datetime", s |-> "", n |-> 0, d |-> NoDict,
     l |-> <<PyInt(seconds), PyInt(microsecond)>>]

EmptyDict == PyDict(NoDict)

IsNone(v) == v.t = "null"

IsDict(v) == v.t = "dict"

IsNotNone(v) == v.t # "null"

IsList(v) == v.t = "list"

IsNumber(v) == v.t \in {"int", "float", "bool"}

\* isinstance(value, types): bool is a subclass of int
IsInstance(v, types) == v.t \in types \/ (v.t = "bool" /\ "int" \in types)

\* hash(value) raises TypeError for a list or a dict
Hashable(v) == v.t \notin {"list", "dict"}

\* a == b for scalars: numbers compare by value whatever their type
PyEq(a, b) == IF IsNumber(a) /\ IsNumber(b) THEN a.n = b.n ELSE a = b

\* x or y
PyTruthy(v) ==
    CASE v.t = "null" -> FALSE
      [] v.t = "str" -> v.s # ""
      [] v.t \in {"int", "float", "bool"} -> v.n # 0
      [] v.t = "dict" -> DOMAIN v.d # {}
      [] v.t = "list" -> v.l # <<>>
      [] OTHER -> TRUE

PyOr(a, b) == IF PyTruthy(a) THEN a ELSE b

\* dict.get(key) on a dict
Get(doc, key) == IF key \in DOMAIN doc.d THEN doc.d[key] ELSE None

\* document[key] = value on a dict
Put(doc, key, value) ==
    PyDict([k \in DOMAIN doc.d \cup {key} |-> IF k = key THEN value ELSE doc.d[k]])

\* document.pop(key) on a dict
Pop(doc, keys) == PyDict([k \in DOMAIN doc.d \ keys |-> doc.d[k]])

Mutated(doc, e) == [doc |-> doc, exc |-> e]

\* document[key] = value: only a dict takes a str key
SetItem(doc, key, value) ==
    IF IsDict(doc) THEN Mutated(Put(doc, key, value), "") ELSE Mutated(doc, "TypeError")

\* evaluate v once and use it as x in in(x)
Bind(v, in(_)) == CHOOSE out \in { in(x) : x \in {v} } : TRUE

\* the statements after a call: they run on the container the call left,
\* unless the call raised
Try(r, next(_)) == Bind(r, LAMBDA x : IF x.exc # "" THEN x ELSE next(x.doc))

\* a call that worked on document[key] in place: document holds what the
\* call left, and the call's exception propagates
Nested(doc, key, r) == Bind(r, LAMBDA x : Mutated(Put(doc, key, x.doc), x.exc))

Range(q) == {q[i] : i \in DOMAIN q}

\* the order in which the items of a dict are visited
KeyOrder ==
    <<"name", "price", "stock", "product_info", "item", "gift", "status", "copies",
      "type", "id", "author", "color", "genre", "tags", "a", "b", "c", "bogus",
      "code", "qty", "rating", "weight", "paid", "tone", "lines", "label", "wrap",
      "at", "pens", "notes", "extras", "line">>

RECURSIVE SelectKeys(_, _)
SelectKeys(order, keys) ==
    IF order = <<>> THEN <<>>
    ELSE IF Head(order) \in keys THEN <<Head(order)>> \o SelectKeys(Tail(order), keys)
         ELSE SelectKeys(Tail(order), keys)

Items(doc) == SelectKeys(KeyOrder, DOMAIN doc.d)

-----------------------------------------------------------------------------
(* Field definitions: the attributes the constructors set *)

\* Field.__init__ with its defaults; has_choices is "choices is not None"
Field ==
    [class |-> "Field", is_required |-> FALSE, has_choices |-> FALSE, choices |-> {},
     default |-> None, fixed_value |-> None, allowed_type |-> {},
     regex |-> "", has_min |-> FALSE, min |-> 0, has_max |-> FALSE, max |-> 0,
     inner_type |-> <<>>, ensure |-> TRUE, remove_none_value |-> TRUE,
     model |-> "", check_field |-> "", models |-> NoDict]

\* StringField.__init__
StringField == [Field EXCEPT !.class = "StringField", !.allowed_type = {"str"}]

\* NumberField.__init__: with choices set, min and max are dropped
NumberField(f) ==
    IF f.has_choices THEN [f EXCEPT !.has_min = FALSE, !.has_max = FALSE] ELSE f

\* IntField.__init__
IntField == [Field EXCEPT !.class = "IntField", !.allowed_type = {"int"}]

\* FloatField.__init__
FloatField == [Field EXCEPT !.class = "FloatField", !.allowed_type = {"float", "int"}]

\* BoolField.__init__
BoolField == [Field EXCEPT !.class = "BoolField", !.allowed_type = {"bool"}]

\* DateTimeField.__init__ with the default precision
DateTimeField == [Field EXCEPT !.class = "DateTimeField"]

\* precision=1e6 of DateTimeField.__init__
Precision == 1000000

\* int_to_datetime(microsecond, precision)
int_to_datetime(microsecond, precision) ==
    PyDatetime(microsecond \div precision, microsecond % precision)

\* ListField.__init__ (ensure is ensure_list)
ListField(inner) ==
    [Field EXCEPT !.class = "ListField", !.allowed_type = {"list"}, !.inner_type = inner]

\* MapField.__init__ (ensure is ensure_dict)
MapField(inner) ==
    [Field EXCEPT !.class = "MapField", !.allowed_type = {"dict"}, !.inner_type = <<inner>>]

\* DefinedDictField.__init__
DefinedDictField(model) ==
    [Field EXCEPT !.class = "DefinedDictField", !.allowed_type = {"dict"}, !.model = model]

\* VariableDefinedDictField.__init__
VariableDefinedDictField(check_field, models) ==
    [Field EXCEPT !.class = "VariableDefinedDictField", !.allowed_type = {"dict"},
                  !.check_field = check_field, !.models = models]

\* re.compile(regex).match(value) for the patterns and the strings of the model
RegexMatch(regex, s) ==
    CASE regex = "\\d{4}-[A-Z]+" -> s \in {"1234-A", "1231-A"}
      [] OTHER -> FALSE

Def(key, definition) == [key |-> key, definition |-> definition]

\* copies = IntField(min=0, max=1000) of the tests
MinCopies == 0

MaxCopies == 1000

\* class Book of the tests
Book ==
    << Def("id", [StringField EXCEPT !.is_required = TRUE, !.regex = "\\d{4}-[A-Z]+"]),
       Def("author", StringField),
       Def("type", [StringField EXCEPT !.fixed_value = PyStr("book")]) >>

\* class Pen of the tests
Pen ==
    << Def("color", [StringField EXCEPT !.is_required = TRUE, !.has_choices = TRUE,
                        !.choices = {PyStr("red"), PyStr("blue"), PyStr("green")}]),
       Def("type", [StringField EXCEPT !.fixed_value = PyStr("pen")]) >>

\* class Product of the tests (default_value=0 on stock is an extra attribute,
\* not the default)
Product ==
    << Def("name", [StringField EXCEPT !.is_required = TRUE]),
       Def("price", [NumberField(FloatField) EXCEPT !.is_required = TRUE]),
       Def("stock", NumberField(IntField)),
       Def("product_info",
           VariableDefinedDictField("type", [book |-> "Book", pen |-> "Pen"])) >>

\* class Novel(Book): a subclass that declares one more field and inherits
\* the rest, the fixed type "book" included
Novel == << Def("genre", StringField) >>

\* a model with an untyped tag and a map of strings
Misc ==
    << Def("type", StringField),
       Def("tags", MapField(StringField)) >>

\* a model with a polymorphic field whose candidates include a subclass and
\* an empty tag, a fixed-schema field, a default (test_default_value) and a
\* bounded number (test_number_field_min_max)
Cart ==
    << Def("item",
           VariableDefinedDictField("type",
               [k \in {"book", "novel", ""} |->
                   CASE k = "book" -> "Book" [] k = "novel" -> "Novel" [] OTHER -> "Misc"])),
       Def("gift", DefinedDictField("Pen")),
       Def("status", [StringField EXCEPT !.default = PyStr("available")]),
       Def("copies", NumberField([IntField EXCEPT !.has_min = TRUE, !.min = MinCopies,
                                                  !.has_max = TRUE, !.max = MaxCopies])) >>

\* a model with one field of each scalar kind: a fixed value, a bounded
\* number, a number with choices and bounds, a float, a bool, a string with
\* choices, a list of strings, a callable default, and a fixed-schema field
\* with a fixed value
Order ==
    << Def("code", [StringField EXCEPT !.fixed_value = PyStr("ORD")]),
       Def("qty", NumberField([IntField EXCEPT !.has_min = TRUE, !.min = MinCopies,
                                               !.has_max = TRUE, !.max = MaxCopies])),
       Def("rating", NumberField([IntField EXCEPT !.has_choices = TRUE,
                                                  !.choices = {PyInt(1), PyInt(2000)},
                                                  !.has_min = TRUE, !.min = MinCopies,
                                                  !.has_max = TRUE, !.max = MaxCopies])),
       Def("weight", NumberField(FloatField)),
       Def("paid", BoolField),
       Def("tone", [StringField EXCEPT !.has_choices = TRUE,
                                       !.choices = {PyStr("red"), PyStr("blue")}]),
       Def("lines", ListField(<<StringField>>)),
       Def("label", [StringField EXCEPT !.default = PyCallable("class_name")]),
       Def("wrap", [DefinedDictField("Pen") EXCEPT
                       !.fixed_value = PyDict("type" :> PyStr("pen")
                                              @@ "color" :> PyStr("red"))]) >>

\* a model with a string and a datetime
Event ==
    << Def("name", StringField),
       Def("at", DateTimeField) >>

\* a nested model with an int, a float and a map of strings
Line ==
    << Def("qty", NumberField(IntField)),
       Def("price", NumberField(FloatField)),
       Def("tags", MapField(StringField)) >>

\* a model with lists of documents (with and without remove_none_value), a
\* list of strings with ensure_list and remove_none_value off, and a
\* fixed-schema field
Basket ==
    << Def("pens", ListField(<<DefinedDictField("Pen")>>)),
       Def("notes", [ListField(<<StringField>>) EXCEPT !.ensure = FALSE,
                                                      !.remove_none_value = FALSE]),
       Def("extras", [ListField(<<DefinedDictField("Pen")>>) EXCEPT
                         !.remove_none_value = FALSE]),
       Def("line", DefinedDictField("Line")) >>

\* the fields a class body declares, in the order of the body
Declared(name) ==
    CASE name = "Book" -> Book
      [] name = "Pen" -> Pen
      [] name = "Product" -> Product
      [] name = "Novel" -> Novel
      [] name = "Misc" -> Misc
      [] name = "Cart" -> Cart
      [] name = "Order" -> Order
      [] name = "Event" -> Event
      [] name = "Line" -> Line
      [] name = "Basket" -> Basket
      [] OTHER -> <<>>

\* the bases of a class, in declaration order
Bases(name) == IF name = "Novel" THEN <<"Book">> ELSE <<>>

\* dict.update on a field map kept as a sequence of (key, definition): a key
\* already present keeps its place and takes the new definition
RECURSIVE FieldsUpdate(_, _)
FieldsUpdate(fields, more) ==
    IF more = <<>> THEN fields
    ELSE LET e == Head(more)
             has == \E i \in 1..Len(fields) : fields[i].key = e.key
             next == IF has
                     THEN [i \in 1..Len(fields) |->
                              IF fields[i].key = e.key THEN e ELSE fields[i]]
                     ELSE Append(fields, e)
         IN FieldsUpdate(next, Tail(more))

\* DefinedDictMetaClass.__init__, the loop "for base in bases:
\* cls._fields.update(base._fields)" over the bases left
RECURSIVE Fields(_)
RECURSIVE BaseFields(_, _)
BaseFields(bases, acc) ==
    IF bases = <<>> THEN acc
    ELSE BaseFields(Tail(bases), FieldsUpdate(acc, Fields(Head(bases))))

\* DefinedDictMetaClass.__init__: cls._fields of a class with these bases
\* and the fields cdict of its body
DefinedDictMetaClass_init(bases, cdict) ==
    FieldsUpdate(BaseFields(bases, <<>>), cdict)

\* cls._fields of a class of the model
Fields(name) == DefinedDictMetaClass_init(Bases(name), Declared(name))

\* cls._fields.keys()
FieldKeys(name) == {e.key : e \in Range(Fields(name))}

\* cls._fields.get(key)
FieldOf(name, key) == (CHOOSE e \in Range(Fields(name)) : e.key = key).definition

\* self.models.get(tag): "" when there is no such key
ModelsGet(f, tag) ==
    IF tag.t = "str" /\ tag.s \in DOMAIN f.models THEN f.models[tag.s] ELSE ""

-----------------------------------------------------------------------------
(* errors: every generator yields (with_key, error type, value) *)

ERROR_IS_REQUIRED == "required"

ERROR_TYPE == "type"

ERROR_VALUE == "value"

Yielded(es, e) == [errs |-> es, exc |-> e]

\* "yield from" one generator after another: what follows a raise never runs
Then(a, b) == IF a.exc # "" THEN a ELSE Yielded(a.errs \o b.errs, b.exc)

\* ".".join([parent, key])
Join(parent, key) == parent \o "." \o key

RECURSIVE field_errors(_, _, _)
RECURSIVE yield_errors(_, _, _)
RECURSIVE ListField_inner_errors(_, _, _, _)
RECURSIVE MapField_inner_errors(_, _, _, _)

\* Field.errors; choices is a set, so the membership test hashes the value
Field_errors(f, value, with_key) ==
    IF IsNone(value)
    THEN IF f.is_required
         THEN Yielded(<< <<with_key, ERROR_IS_REQUIRED, None>> >>, "")
         ELSE Yielded(<<>>, "")
    ELSE IF f.has_choices
         THEN IF ~Hashable(value) THEN Yielded(<<>>, "TypeError")
              ELSE IF ~(\E c \in f.choices : PyEq(c, value))
                   THEN Yielded(<< <<with_key, ERROR_VALUE, value>> >>, "")
                   ELSE Yielded(<<>>, "")
         ELSE Yielded(<<>>, "")

\* TypedField.errors
TypedField_errors(f, value, with_key) ==
    Then(Field_errors(f, value, with_key),
         IF ~IsNone(value) /\ ~IsInstance(value, f.allowed_type)
         THEN Yielded(<< <<with_key, ERROR_TYPE, value>> >>, "")
         ELSE Yielded(<<>>, ""))

\* StringField.errors: regex.match raises TypeError on a value that is no str
StringField_errors(f, value, with_key) ==
    Then(TypedField_errors(f, value, with_key),
         IF f.regex # "" /\ ~IsNone(value)
         THEN IF value.t # "str" THEN Yielded(<<>>, "TypeError")
              ELSE IF ~RegexMatch(f.regex, value.s)
                   THEN Yielded(<< <<with_key, ERROR_VALUE, value>> >>, "")
                   ELSE Yielded(<<>>, "")
         ELSE Yielded(<<>>, ""))

\* NumberField.errors with the bounds of its docstring: rejects value >= max
NumberField_errors_exclusive(f, value, with_key) ==
    Then(TypedField_errors(f, value, with_key),
         IF ~IsNone(value)
         THEN IF f.has_min /\ ~IsNumber(value) THEN Yielded(<<>>, "TypeError")
              ELSE IF f.has_min /\ value.n < 10 * f.min
                   THEN Yielded(<< <<with_key, ERROR_VALUE, value>> >>, "")
                   ELSE IF f.has_max /\ ~IsNumber(value) THEN Yielded(<<>>, "TypeError")
                        ELSE IF f.has_max /\ value.n >= 10 * f.max
                             THEN Yielded(<< <<with_key, ERROR_VALUE, value>> >>, "")
                             ELSE Yielded(<<>>, "")
         ELSE Yielded(<<>>, ""))

\* NumberField.errors: < and > raise TypeError between a number and a value
\* that is no number; "or" evaluates the max test only when the min test is false
NumberField_errors(f, value, with_key) ==
    Then(TypedField_errors(f, value, with_key),
         IF ~IsNone(value)
         THEN IF f.has_min /\ ~IsNumber(value) THEN Yielded(<<>>, "TypeError")
              ELSE IF f.has_min /\ value.n < 10 * f.min
                   THEN Yielded(<< <<with_key, ERROR_VALUE, value>> >>, "")
                   ELSE IF f.has_max /\ ~IsNumber(value) THEN Yielded(<<>>, "TypeError")
                        ELSE IF f.has_max /\ value.n > 10 * f.max
                             THEN Yielded(<< <<with_key, ERROR_VALUE, value>> >>, "")
                             ELSE Yielded(<<>>, "")
         ELSE Yielded(<<>>, ""))

\* DateTimeField.errors
DateTimeField_errors(f, value, with_key) ==
    Then(Field_errors(f, value, with_key),
         IF ~IsNone(value) /\ value.t # "datetime"
         THEN Yielded(<< <<with_key, ERROR_TYPE, value>> >>, "")
         ELSE Yielded(<<>>, ""))

\* ListField.errors, the loop over enumerate(value) from index ind on
ListField_inner_errors(f, items, ind, with_key) ==
    IF ind > Len(items) THEN Yielded(<<>>, "")
    ELSE Then(field_errors(f.inner_type[1], items[ind], Join(with_key, ToString(ind - 1))),
              ListField_inner_errors(f, items, ind + 1, with_key))

\* ListField.errors
ListField_errors(f, value, with_key) ==
    Then(TypedField_errors(f, value, with_key),
         IF f.inner_type # <<>> /\ IsList(value)
         THEN ListField_inner_errors(f, value.l, 1, with_key)
         ELSE Yielded(<<>>, ""))

\* MapField.errors, the loop over value.items() for the keys left
MapField_inner_errors(f, value, keys, with_key) ==
    IF keys = <<>> THEN Yielded(<<>>, "")
    ELSE Then(field_errors(f.inner_type[1], value.d[Head(keys)], Join(with_key, Head(keys))),
              MapField_inner_errors(f, value, Tail(keys), with_key))

\* MapField.errors
MapField_errors(f, value, with_key) ==
    Then(TypedField_errors(f, value, with_key),
         IF IsDict(value)
         THEN MapField_inner_errors(f, value, Items(value), with_key)
         ELSE Yielded(<<>>, ""))

\* DefinedDictField.errors
DefinedDictField_errors(f, value, with_key) ==
    Then(TypedField_errors(f, value, with_key),
         IF IsDict(value)
         THEN yield_errors(Fields(f.model), value, with_key)
         ELSE Yielded(<<>>, ""))

\* VariableDefinedDictField.errors that goes on to another candidate model
\* after the resolved one
VariableDefinedDictField_errors_others(f, value, with_key) ==
    Then(TypedField_errors(f, value, with_key),
         IF IsDict(value)
         THEN LET type == Get(value, f.check_field)
                  model == ModelsGet(f, type)
              IN IF IsNone(type)
                 THEN Yielded(<< <<Join(with_key, f.check_field), ERROR_IS_REQUIRED, None>> >>, "")
                 ELSE IF ~Hashable(type) THEN Yielded(<<>>, "TypeError")
                 ELSE IF model = ""
                 THEN Yielded(<< <<Join(with_key, f.check_field), ERROR_VALUE, type>> >>, "")
                 ELSE Then(yield_errors(Fields(model), value, with_key),
                           yield_errors(Fields(CHOOSE m \in {f.models[k] : k \in DOMAIN f.models} :
                                                   m # model),
                                        value, with_key))
         ELSE Yielded(<<>>, ""))

\* VariableDefinedDictField.errors: self.models.get(_type) hashes _type
VariableDefinedDictField_errors(f, value, with_key) ==
    Then(TypedField_errors(f, value, with_key),
         IF IsDict(value)
         THEN LET type == Get(value, f.check_field)
                  model == ModelsGet(f, type)
              IN IF IsNone(type)
                 THEN Yielded(<< <<Join(with_key, f.check_field), ERROR_IS_REQUIRED, None>> >>, "")
                 ELSE IF ~Hashable(type) THEN Yielded(<<>>, "TypeError")
                 ELSE IF model = ""
                 THEN Yielded(<< <<Join(with_key, f.check_field), ERROR_VALUE, type>> >>, "")
                 ELSE yield_errors(Fields(model), value, with_key)
         ELSE Yielded(<<>>, ""))

\* definition.errors(value, with_key): the method of the field's class
field_errors(f, value, with_key) ==
    CASE f.class = "Field" -> Field_errors(f, value, with_key)
      [] f.class = "StringField" -> StringField_errors(f, value, with_key)
      [] f.class \in {"IntField", "FloatField"} -> NumberField_errors(f, value, with_key)
      [] f.class = "ListField" -> ListField_errors(f, value, with_key)
      [] f.class = "MapField" -> MapField_errors(f, value, with_key)
      [] f.class = "DefinedDictField" -> DefinedDictField_errors(f, value, with_key)
      [] f.class = "VariableDefinedDictField" ->
            VariableDefinedDictField_errors(f, value, with_key)
      [] f.class = "BoolField" -> TypedField_errors(f, value, with_key)
      [] f.class = "DateTimeField" -> DateTimeField_errors(f, value, with_key)

\* DefinedDict._yield_errors that skips the keys the document does not hold
yield_errors_present(fields, doc, parent) ==
    IF fields = <<>> THEN Yielded(<<>>, "")
    ELSE Then(IF Head(fields).key \in DOMAIN doc.d
              THEN field_errors(Head(fields).definition, Get(doc, Head(fields).key),
                                IF parent = "" THEN Head(fields).key
                                ELSE Join(parent, Head(fields).key))
              ELSE Yielded(<<>>, ""),
              yield_errors(Tail(fields), doc, parent))

\* DefinedDict._yield_errors, the loop over the fields left of cls._fields;
\* parent is "" for None
yield_errors(fields, doc, parent) ==
    IF fields = <<>> THEN Yielded(<<>>, "")
    ELSE Then(field_errors(Head(fields).definition, Get(doc, Head(fields).key),
                           IF parent = "" THEN Head(fields).key
                           ELSE Join(parent, Head(fields).key)),
              yield_errors(Tail(fields), doc, parent))

\* DefinedDict.get_document_errors: list() of the generator, which raises
\* what the generator raises
get_document_errors(name, doc) == yield_errors(Fields(name), doc, "")

\* DefinedDict.is_document_valid that runs the generator to its end before
\* it looks at the errors
is_document_valid_eager(name, doc) ==
    Bind(yield_errors(Fields(name), doc, ""), LAMBDA r :
         IF r.exc # "" THEN [ret |-> None, exc |-> r.exc]
         ELSE [ret |-> PyBool(r.errs = <<>>), exc |-> ""])

\* DefinedDict.is_document_valid: next() of the generator returns False at the
\* first error, True when the generator ends, and lets through what the
\* generator raises before it yields
is_document_valid(name, doc) ==
    Bind(yield_errors(Fields(name), doc, ""), LAMBDA r :
         IF r.errs # <<>> THEN [ret |-> PyBool(FALSE), exc |-> ""]
         ELSE IF r.exc # "" THEN [ret |-> None, exc |-> r.exc]
         ELSE [ret |-> PyBool(TRUE), exc |-> ""])

-----------------------------------------------------------------------------
(* make_default and clean *)

\* pairs (key, s) of the model's strings with key a substring of s
Substrings == { <<"id", "paid">> }

\* "key in document": a dict looks the key up, a str searches for the
\* substring, a list compares its items, a number raises TypeError
Contains(doc, key) ==
    CASE doc.t = "dict" -> [in |-> key \in DOMAIN doc.d, exc |-> ""]
      [] doc.t = "str" -> [in |-> <<key, doc.s>> \in Substrings, exc |-> ""]
      [] doc.t = "list" ->
            [in |-> \E i \in 1..Len(doc.l) : doc.l[i] = PyStr(key), exc |-> ""]
      [] OTHER -> [in |-> FALSE, exc |-> "TypeError"]

\* document.get(key): only a dict has the method
HasGet(doc) == IsDict(doc)

RECURSIVE make_default(_)
RECURSIVE model_make_default(_)
RECURSIVE field_clean(_, _, _, _, _)
RECURSIVE clean_fields(_, _, _, _)
RECURSIVE clean_document(_, _, _, _)
RECURSIVE ListField_clean_items(_, _, _, _, _)
RECURSIVE MapField_clean_items(_, _, _, _, _)

\* default(field) for the callables of the model: class_name is
\* lambda field: type(field).__name__
Call(default, f) == IF default.s = "class_name" THEN PyStr(f.class) ELSE None

\* Field.make_default that returns a callable default as it is
Field_make_default_literal(f) ==
    IF IsNone(f.default) THEN None
    ELSE f.default

\* Field.make_default
Field_make_default(f) ==
    IF IsNone(f.default) THEN None
    ELSE IF f.default.t = "callable" THEN Call(f.default, f)
    ELSE f.default

\* DefinedDictField.make_default
DefinedDictField_make_default(f) ==
    IF IsNone(f.default) THEN model_make_default(Fields(f.model))
    ELSE Field_make_default(f)

\* VariableDefinedDictField.make_default
VariableDefinedDictField_make_default(f) == None

\* definition.make_default(): the method of the field's class
make_default(f) ==
    CASE f.class = "DefinedDictField" -> DefinedDictField_make_default(f)
      [] f.class = "VariableDefinedDictField" -> VariableDefinedDictField_make_default(f)
      [] OTHER -> Field_make_default(f)

\* DefinedDict.make_default, the comprehension over the fields left of
\* cls._fields: a later item with the same key wins
model_make_default(fields) ==
    IF fields = <<>> THEN EmptyDict
    ELSE Bind(model_make_default(Tail(fields)), LAMBDA rest :
              IF Head(fields).key \in DOMAIN rest.d THEN rest
              ELSE Put(rest, Head(fields).key, make_default(Head(fields).definition)))

\* the clean methods without "if key not in document: ...": an absent key
\* stays absent
SetDefault_never(f, doc, key, set_default) == Mutated(doc, "")

\* the part of the clean methods that is "if key not in document: if
\* set_default: document[key] = self.make_default()"
SetDefault(f, doc, key, set_default) ==
    Bind(Contains(doc, key), LAMBDA c :
         IF c.exc # "" THEN Mutated(doc, c.exc)
         ELSE IF ~c.in /\ set_default THEN SetItem(doc, key, make_default(f))
         ELSE Mutated(doc, ""))

\* Field.clean
Field_clean(f, doc, key, set_default) ==
    Try(IF ~IsNone(f.fixed_value) THEN SetItem(doc, key, f.fixed_value)
        ELSE Mutated(doc, ""),
        LAMBDA fixed : SetDefault(f, fixed, key, set_default))

\* DateTimeField.clean: document[key] raises KeyError when the key is still
\* absent after Field.clean, TypeError on a container that is no dict
DateTimeField_clean(f, doc, key, set_default) ==
    Try(Field_clean(f, doc, key, set_default), LAMBDA base :
        IF ~IsDict(base) THEN Mutated(base, "TypeError")
        ELSE IF key \notin DOMAIN base.d THEN Mutated(base, "KeyError")
        ELSE IF IsInstance(base.d[key], {"int"})
             THEN SetItem(base, key, int_to_datetime(base.d[key].n \div 10, Precision))
             ELSE Mutated(base, ""))

\* ListField.clean, the loop "for item in document[key]" from index i on;
\* the items are cleaned in place
ListField_clean_items(f, list, i, set_default, remove_undefined) ==
    IF i > Len(list.l) THEN Mutated(list, "")
    ELSE Bind(clean_document(f.inner_type[1].model, list.l[i], set_default,
                             remove_undefined),
              LAMBDA r :
                  IF r.exc # "" THEN Mutated([list EXCEPT !.l[i] = r.doc], r.exc)
                  ELSE ListField_clean_items(f, [list EXCEPT !.l[i] = r.doc], i + 1,
                                             set_default, remove_undefined))

\* ListField.clean, after super().clean, without the removal of the None
\* items: None becomes [] and a list stays as it is
ListField_coerce_keeping(f, doc, key) ==
    IF f.ensure /\ IsNone(Get(doc, key)) THEN Put(doc, key, PyList(<<>>)) ELSE doc

\* ListField.clean, after super().clean: None becomes [] and the None items
\* are dropped
ListField_coerce(f, doc, key) ==
    IF f.ensure /\ IsNone(Get(doc, key)) THEN Put(doc, key, PyList(<<>>))
    ELSE IF f.remove_none_value /\ IsList(Get(doc, key))
         THEN Put(doc, key, PyList(SelectSeq(Get(doc, key).l, IsNotNone)))
         ELSE doc

\* ListField.clean; a slot holding a str or a dict where a list of documents
\* is declared is outside the model ("unmodelled")
ListField_clean(f, doc, key, set_default, remove_undefined) ==
    Try(Field_clean(f, doc, key, set_default), LAMBDA base :
        IF ~HasGet(base) THEN Mutated(base, "AttributeError")
        ELSE Bind(ListField_coerce(f, base, key), LAMBDA d :
             IF f.inner_type # <<>> /\ PyTruthy(Get(d, key))
                /\ f.inner_type[1].class = "DefinedDictField"
             THEN IF IsList(Get(d, key))
                  THEN Nested(d, key, ListField_clean_items(f, Get(d, key), 1,
                                          set_default, remove_undefined))
                  ELSE IF IsNumber(Get(d, key)) THEN Mutated(d, "TypeError")
                  ELSE Mutated(d, "unmodelled")
             ELSE Mutated(d, "")))

\* MapField.clean, the loop "for k, v in document.get(key).items()" for the
\* keys left; the map is cleaned in place
MapField_clean_items(f, map, keys, set_default, remove_undefined) ==
    IF keys = <<>> THEN Mutated(map, "")
    ELSE Try(field_clean(f.inner_type[1], map, Head(keys), set_default, remove_undefined),
             LAMBDA m : MapField_clean_items(f, m, Tail(keys), set_default,
                                             remove_undefined))

\* MapField.clean, the None values popped when remove_none_value is set
MapField_pop_none(f, map) ==
    IF f.remove_none_value THEN Pop(map, {k \in DOMAIN map.d : IsNone(map.d[k])}) ELSE map

\* MapField.clean
MapField_clean(f, doc, key, set_default, remove_undefined) ==
    Try(Field_clean(f, doc, key, set_default), LAMBDA base :
        IF ~HasGet(base) THEN Mutated(base, "AttributeError")
        ELSE Bind(IF f.ensure /\ IsNone(Get(base, key)) THEN Put(base, key, EmptyDict)
                  ELSE base,
                  LAMBDA d :
                      IF IsNone(Get(d, key)) THEN Mutated(d, "")
                      ELSE IF ~IsDict(Get(d, key)) THEN Mutated(d, "AttributeError")
                      ELSE Bind(MapField_pop_none(f, Get(d, key)), LAMBDA map :
                                Nested(d, key,
                                       MapField_clean_items(f, map, Items(map), set_default,
                                                            remove_undefined)))))

\* DefinedDictField.clean that leaves a default it has just set uncleaned
DefinedDictField_clean_present(f, doc, key, set_default, remove_undefined) ==
    Bind(Contains(doc, key), LAMBDA c :
         IF c.exc # "" THEN Mutated(doc, c.exc)
         ELSE IF ~c.in
              THEN IF set_default THEN SetItem(doc, key, make_default(f))
                   ELSE Mutated(doc, "")
              ELSE IF ~IsNone(Get(doc, key))
                   THEN Nested(doc, key,
                               clean_document(f.model, Get(doc, key), set_default,
                                              remove_undefined))
                   ELSE Mutated(doc, ""))

\* DefinedDictField.clean
DefinedDictField_clean(f, doc, key, set_default, remove_undefined) ==
    Try(SetDefault(f, doc, key, set_default), LAMBDA base :
        IF ~HasGet(base) THEN Mutated(base, "AttributeError")
        ELSE IF ~IsNone(Get(base, key))
             THEN Nested(base, key,
                         clean_document(f.model, Get(base, key), set_default,
                                        remove_undefined))
             ELSE Mutated(base, ""))

\* VariableDefinedDictField._get_model: [model, exc], model "" for None
get_model(f, value) ==
    IF IsNone(value) THEN [model |-> "", exc |-> ""]
    ELSE IF ~HasGet(value) THEN [model |-> "", exc |-> "AttributeError"]
    ELSE IF IsNone(Get(value, f.check_field)) THEN [model |-> "", exc |-> ""]
    ELSE IF ~Hashable(Get(value, f.check_field)) THEN [model |-> "", exc |-> "TypeError"]
    ELSE [model |-> ModelsGet(f, Get(value, f.check_field)), exc |-> ""]

\* VariableDefinedDictField.clean: model.clean_document on a model that is
\* None raises AttributeError
VariableDefinedDictField_clean(f, doc, key, set_default, remove_undefined) ==
    Try(SetDefault(f, doc, key, set_default), LAMBDA base :
        IF ~HasGet(base) THEN Mutated(base, "AttributeError")
        ELSE IF IsNone(Get(base, key)) THEN Mutated(base, "")
        ELSE Bind(get_model(f, Get(base, key)), LAMBDA m :
                  IF m.exc # "" THEN Mutated(base, m.exc)
                  ELSE IF m.model = "" THEN Mutated(base, "AttributeError")
                  ELSE Nested(base, key,
                              clean_document(m.model, Get(base, key), set_default,
                                             remove_undefined))))

\* definition.clean(document, key, set_default=..., remove_undefined=...):
\* the method of the field's class
field_clean(f, doc, key, set_default, remove_undefined) ==
    CASE f.class = "ListField" -> ListField_clean(f, doc, key, set_default, remove_undefined)
      [] f.class = "MapField" -> MapField_clean(f, doc, key, set_default, remove_undefined)
      [] f.class = "DefinedDictField" ->
            DefinedDictField_clean(f, doc, key, set_default, remove_undefined)
      [] f.class = "VariableDefinedDictField" ->
            VariableDefinedDictField_clean(f, doc, key, set_default, remove_undefined)
      [] f.class \in {"Field", "StringField", "IntField", "FloatField", "BoolField"} ->
            Field_clean(f, doc, key, set_default)
      [] f.class = "DateTimeField" -> DateTimeField_clean(f, doc, key, set_default)

\* DefinedDict.clean_document, the loop over the fields left of cls._fields
clean_fields(fields, doc, set_default, remove_undefined) ==
    IF fields = <<>> THEN Mutated(doc, "")
    ELSE Try(field_clean(Head(fields).definition, doc, Head(fields).key, set_default,
                         remove_undefined),
             LAMBDA d : clean_fields(Tail(fields), d, set_default, remove_undefined))

\* DefinedDict.clean_document with an empty "if remove_undefined" block
pop_nothing(name, doc) == Mutated(doc, "")

\* DefinedDict.clean_document, "if remove_undefined": document.keys() needs
\* a dict
pop_undefined(name, doc) ==
    IF ~IsDict(doc) THEN Mutated(doc, "AttributeError")
    ELSE Mutated(Pop(doc, DOMAIN doc.d \ FieldKeys(name)), "")

\* DefinedDict.clean_document
clean_document(name, doc, set_default, remove_undefined) ==
    IF IsNone(doc) THEN Mutated(doc, "")
    ELSE Try(clean_fields(Fields(name), doc, set_default, remove_undefined),
             LAMBDA d : IF remove_undefined THEN pop_undefined(name, d)
                        ELSE Mutated(d, ""))

-----------------------------------------------------------------------------
(* update *)

RECURSIVE field_update(_, _, _, _)
RECURSIVE update_items(_, _, _, _)
RECURSIVE MapField_update_items(_, _, _, _)

\* Field.update
Field_update(f, doc, key, value) == SetItem(doc, key, value)

\* FloatField.update: float(value) of an int (or bool) keeps the number
FloatField_update(f, doc, key, value) ==
    Field_update(f, doc, key,
                 IF IsInstance(value, {"int"}) THEN PyFloat(value.n) ELSE value)

\* DefinedDict.update: new_value.items() needs a dict
model_update(name, doc, new_value) ==
    IF ~IsDict(new_value) THEN Mutated(doc, "AttributeError")
    ELSE update_items(name, doc, new_value, Items(new_value))

\* MapField.update, one turn of the loops "for k, v in value.items()";
\* map is document[key]
MapField_update_item(f, map, k, v) ==
    IF f.inner_type[1].class = "DefinedDictField"
    THEN IF IsNone(Get(map, k)) \/ IsNone(v) THEN SetItem(map, k, v)
         ELSE Nested(map, k, model_update(f.inner_type[1].model, Get(map, k), v))
    ELSE IF IsNone(Get(map, k)) THEN SetItem(map, k, v)
         ELSE field_update(f.inner_type[1], map, k, v)

\* MapField.update, the loops for the keys left: document[key].get needs a dict
MapField_update_items(f, map, value, keys) ==
    IF keys = <<>> THEN Mutated(map, "")
    ELSE IF ~HasGet(map) THEN Mutated(map, "AttributeError")
    ELSE Try(MapField_update_item(f, map, Head(keys), value.d[Head(keys)]),
             LAMBDA m : MapField_update_items(f, m, value, Tail(keys)))

\* MapField.update as a plain assignment: the patch value replaces the map
MapField_update_replacing(f, doc, key, value) == Field_update(f, doc, key, value)

\* MapField.update
MapField_update(f, doc, key, value) ==
    IF ~IsDict(value) THEN Mutated(doc, "")
    ELSE IF ~HasGet(doc) THEN Mutated(doc, "AttributeError")
    ELSE Bind(IF IsNone(Get(doc, key)) THEN Put(doc, key, EmptyDict) ELSE doc,
              LAMBDA d : Nested(d, key,
                                MapField_update_items(f, Get(d, key), value, Items(value))))

\* DefinedDictField.update as a plain assignment: the patch value replaces
\* the sub-document
DefinedDictField_update_replacing(f, doc, key, value) == Field_update(f, doc, key, value)

\* DefinedDictField.update
DefinedDictField_update(f, doc, key, value) ==
    IF ~IsDict(value) THEN Mutated(doc, "")
    ELSE IF ~HasGet(doc) THEN Mutated(doc, "AttributeError")
    ELSE IF IsNone(Get(doc, key)) THEN SetItem(doc, key, value)
    ELSE Nested(doc, key, model_update(f.model, Get(doc, key), value))

\* VariableDefinedDictField.update without its elif branch: two different
\* tags leave the slot as it is
VariableDefinedDictField_merge_only(f, document_, key, value, doc_type, value_type) ==
    IF IsNone(doc_type) \/ IsNone(value_type) \/ PyEq(doc_type, value_type)
    THEN IF ~Hashable(PyOr(doc_type, value_type)) THEN Mutated(document_, "TypeError")
         ELSE IF ModelsGet(f, PyOr(doc_type, value_type)) = ""
              THEN Mutated(document_, "ValueError")
              ELSE Nested(document_, key,
                          model_update(ModelsGet(f, PyOr(doc_type, value_type)),
                                       Get(document_, key), value))
    ELSE Mutated(document_, "")

\* VariableDefinedDictField.update, from "doc_type = ..." on: doc is the
\* sub-document in place
VariableDefinedDictField_merge(f, document_, key, value, doc_type, value_type) ==
    IF IsNone(doc_type) \/ IsNone(value_type) \/ PyEq(doc_type, value_type)
    THEN IF ~Hashable(PyOr(doc_type, value_type)) THEN Mutated(document_, "TypeError")
         ELSE IF ModelsGet(f, PyOr(doc_type, value_type)) = ""
              THEN Mutated(document_, "ValueError")
              ELSE Nested(document_, key,
                          model_update(ModelsGet(f, PyOr(doc_type, value_type)),
                                       Get(document_, key), value))
    ELSE IF ~IsNone(value_type) THEN SetItem(document_, key, value)
    ELSE Mutated(document_, "")

\* VariableDefinedDictField.update
VariableDefinedDictField_update(f, document_, key, value) ==
    IF ~IsDict(value) THEN Mutated(document_, "")
    ELSE IF ~HasGet(document_) THEN Mutated(document_, "AttributeError")
    ELSE IF IsNone(value) \/ IsNone(Get(document_, key)) THEN SetItem(document_, key, value)
    ELSE IF ~HasGet(Get(document_, key)) THEN Mutated(document_, "AttributeError")
    ELSE VariableDefinedDictField_merge(f, document_, key, value,
                                        Get(Get(document_, key), f.check_field),
                                        Get(value, f.check_field))

\* definition.update(document, key, value): the method of the field's class
field_update(f, doc, key, value) ==
    CASE f.class = "FloatField" -> FloatField_update(f, doc, key, value)
      [] f.class = "MapField" -> MapField_update(f, doc, key, value)
      [] f.class = "DefinedDictField" -> DefinedDictField_update(f, doc, key, value)
      [] f.class = "VariableDefinedDictField" ->
            VariableDefinedDictField_update(f, doc, key, value)
      [] f.class \in {"Field", "StringField", "IntField", "BoolField", "ListField",
                       "DateTimeField"} ->
            Field_update(f, doc, key, value)

\* DefinedDict.update without "if key in cls._fields": a key the model does
\* not declare is assigned
update_items_undeclared(name, doc, new_value, keys) ==
    IF keys = <<>> THEN Mutated(doc, "")
    ELSE Try(IF Head(keys) \in FieldKeys(name)
             THEN field_update(FieldOf(name, Head(keys)), doc, Head(keys),
                               new_value.d[Head(keys)])
             ELSE SetItem(doc, Head(keys), new_value.d[Head(keys)]),
             LAMBDA d : update_items(name, d, new_value, Tail(keys)))

\* DefinedDict.update, the loop over new_value.items() for the keys left
update_items(name, doc, new_value, keys) ==
    IF keys = <<>> THEN Mutated(doc, "")
    ELSE Try(IF Head(keys) \in FieldKeys(name)
             THEN field_update(FieldOf(name, Head(keys)), doc, Head(keys),
                               new_value.d[Head(keys)])
             ELSE Mutated(doc, ""),
             LAMBDA d : update_items(name, d, new_value, Tail(keys)))

-----------------------------------------------------------------------------
(* The documents and patches the operations are called with *)

\* how many operations a run applies to its document
MaxSteps == 2

BookDoc == PyDict("type" :> PyStr("book") @@ "id" :> PyStr("1234-A"))

PenDoc == PyDict("type" :> PyStr("pen") @@ "color" :> PyStr("blue"))

\* values of product_info: documents of the tests, documents with a key of
\* the other model, with no tag, with a tag no model has, with a tag that is
\* a list, and values that are no document
InfoDocs ==
    { BookDoc,
      PyDict("type" :> PyStr("book")),
      Put(BookDoc, "color", PyStr("blue")),
      PenDoc,
      Put(PenDoc, "id", PyStr("1234-A")),
      PyDict("id" :> PyStr("1234-A")),
      PyDict("type" :> PyStr("stapler")),
      PyDict("type" :> PyList(<<PyStr("book")>>)),
      Put(BookDoc, "id", PyInt(5)),
      EmptyDict,
      None,
      PyStr("paid") }

ProductBase == PyDict("name" :> PyStr("X") @@ "price" :> PyFloat(10) @@ "stock" :> PyInt(3))

ProductDocs ==
    { Put(ProductBase, "product_info", i) : i \in InfoDocs }
    \cup { ProductBase, EmptyDict,
           PyDict("name" :> PyStr("X") @@ "bogus" :> PyInt(1)),
           PyDict("name" :> None @@ "stock" :> PyInt(3)),
           PyDict("price" :> PyStr("1") @@ "product_info" :> BookDoc) }

ProductPatches ==
    { PyDict("product_info" :> i) :
        i \in { PyDict("type" :> PyStr("book") @@ "author" :> PyStr("X")),
                PyDict("author" :> PyStr("X")),
                PyDict("color" :> PyStr("blue")),
                PenDoc,
                PyDict("type" :> PyStr("stapler")),
                PyDict("type" :> PyList(<<PyStr("book")>>)),
                EmptyDict, None, PyStr("paid") } }
    \cup { PyDict("name" :> PyStr("Red Pen") @@ "price" :> PyFloat(15)
                  @@ "stock" :> PyInt(1000) @@ "product_info" :> PenDoc),
           PyDict("bogus" :> PyInt(1) @@ "stock" :> PyInt(5)),
           PyDict("price" :> PyInt(3)) }

MiscDoc == PyDict("type" :> PyStr("") @@ "tags" :> PyDict("a" :> PyStr("x")))

NovelDoc == PyDict("type" :> PyStr("novel") @@ "genre" :> PyStr("g") @@ "id" :> PyStr("1234-A"))

CartDocs ==
    { PyDict("item" :> MiscDoc),
      PyDict("item" :> PyDict("tags" :> PyDict("a" :> PyStr("x")))),
      PyDict("item" :> PyDict("type" :> PyStr("") @@ "tags" :> PyStr("paid"))),
      PyDict("item" :> NovelDoc @@ "copies" :> PyInt(1000)),
      PyDict("item" :> BookDoc @@ "gift" :> Put(PenDoc, "id", PyInt(1))
             @@ "bogus" :> PyInt(1)),
      PyDict("gift" :> PyStr("paid") @@ "status" :> None),
      PyDict("gift" :> PenDoc @@ "copies" :> PyStr("x")),
      EmptyDict }

CartPatches ==
    { PyDict("item" :> PyDict("type" :> PyStr("") @@ "tags" :> PyDict("b" :> PyStr("y")))),
      PyDict("item" :> PyDict("type" :> PyStr("") @@ "tags" :> PyStr("zz"))),
      PyDict("item" :> PyDict("tags" :> PyDict("b" :> PyStr("y")))),
      PyDict("item" :> PyDict("type" :> PyStr("novel") @@ "genre" :> PyStr("g"))),
      PyDict("item" :> PyDict("author" :> PyStr("X"))),
      PyDict("gift" :> PyDict("color" :> PyStr("red") @@ "bogus" :> PyInt(1))),
      PyDict("gift" :> PyDict("color" :> PyStr("red"))
             @@ "item" :> PyDict("type" :> PyStr("stapler"))),
      PyDict("copies" :> PyInt(5) @@ "status" :> None) }

\* documents of Order: each holds one slot, with a value the field accepts,
\* a value at or beyond a bound, or a value of another type
OrderDocs ==
    { PyDict("qty" :> v) :
        v \in {PyInt(MinCopies), PyInt(MaxCopies), PyInt(MinCopies - 1),
               PyInt(MaxCopies + 1), PyFloat(30), PyStr("x"), PyBool(TRUE)} }
    \cup { PyDict("rating" :> v) : v \in {PyInt(1), PyInt(2000), PyInt(3)} }
    \cup { PyDict("weight" :> v) : v \in {PyFloat(355), PyInt(35), PyStr("x")} }
    \cup { PyDict("paid" :> v) : v \in {PyBool(TRUE), PyInt(1)} }
    \cup { PyDict("tone" :> v) :
             v \in {PyStr("red"), PyStr("green"), PyInt(5), PyList(<<PyStr("red")>>)} }
    \cup { PyDict("lines" :> v) :
             v \in {PyList(<<PyStr("a"), None, PyStr("b")>>), PyList(<<PyInt(1)>>),
                    PyStr("paid"), None} }
    \cup { PyDict("label" :> v) : v \in {PyStr("mine"), PyInt(1000)} }
    \cup { PyDict("wrap" :> v) : v \in {PenDoc, PyStr("paid")} }
    \cup { PyDict("code" :> PyStr("X")), EmptyDict }

OrderPatches ==
    { PyDict("qty" :> PyInt(MaxCopies + 1) @@ "weight" :> PyInt(3)),
      PyDict("wrap" :> PyDict("color" :> PyStr("green"))),
      PyDict("lines" :> PyList(<<None>>) @@ "tone" :> PyStr("blue")) }

\* documents of Event: without the datetime, with an int (microseconds), a
\* datetime, a bool, a str and None in its place
EventDocs ==
    { EmptyDict,
      PyDict("name" :> PyStr("X")),
      PyDict("at" :> PyInt(5)),
      PyDict("at" :> PyInt(2000001) @@ "bogus" :> PyInt(1)),
      PyDict("at" :> PyDatetime(0, 5)),
      PyDict("at" :> PyBool(TRUE)),
      PyDict("at" :> PyStr("x")),
      PyDict("at" :> None) }

EventPatches ==
    { PyDict("at" :> PyInt(7)),
      PyDict("name" :> PyStr("Y") @@ "bogus" :> PyInt(1)) }

LineDoc ==
    PyDict("qty" :> PyInt(1) @@ "price" :> PyFloat(25) @@ "tags" :> PyDict("a" :> PyStr("x")))

\* documents of Basket: lists with None items and documents to clean, None
\* and other values where a list is declared, and sub-documents of Line
BasketDocs ==
    { EmptyDict,
      PyDict("pens" :> None @@ "notes" :> None),
      PyDict("pens" :> PyList(<<Put(PenDoc, "id", PyStr("1234-A")), None,
                                PyDict("color" :> PyStr("red"))>>)),
      PyDict("pens" :> PyList(<<None>>) @@ "notes" :> PyList(<<None, PyStr("a")>>)),
      PyDict("pens" :> PyInt(5)),
      PyDict("notes" :> PyStr("paid")),
      PyDict("extras" :> PyList(<<None, Put(PenDoc, "bogus", PyInt(1))>>)),
      PyDict("extras" :> PyList(<<PyStr("paid")>>)),
      PyDict("extras" :> PyList(<<Put(PenDoc, "bogus", PyInt(1))>>)
             @@ "notes" :> PyList(<<PyStr("a")>>)),
      PyDict("line" :> Put(LineDoc, "bogus", PyInt(1))),
      PyDict("line" :> None),
      PyDict("line" :> EmptyDict @@ "bogus" :> PyInt(1)),
      PyDict("line" :> PyDict("tags" :> PyStr("paid"))),
      PyDict("line" :> PyStr("paid")),
      PyDict("pens" :> PyList(<<PenDoc>>) @@ "line" :> PyDict("price" :> PyFloat(10))) }

BasketPatches ==
    { PyDict("line" :> PyDict("price" :> PyInt(3) @@ "bogus" :> PyInt(1))),
      PyDict("line" :> PyDict("tags" :> PyDict("b" :> PyStr("y")) @@ "qty" :> PyInt(2))),
      PyDict("line" :> PyDict("bogus" :> PyInt(1))),
      PyDict("line" :> PyStr("paid")),
      PyDict("pens" :> PyList(<<None>>)) }

Models == {"Product", "Cart", "Order", "Event", "Basket"}

Docs(name) ==
    CASE name = "Product" -> ProductDocs
      [] name = "Cart" -> CartDocs
      [] name = "Order" -> OrderDocs
      [] name = "Event" -> EventDocs
      [] name = "Basket" -> BasketDocs

Patches(name) ==
    CASE name = "Product" -> ProductPatches
      [] name = "Cart" -> CartPatches
      [] name = "Order" -> OrderPatches
      [] name = "Event" -> EventPatches
      [] name = "Basket" -> BasketPatches

\* the orders in which a dict with these keys can hold them
Orders(keys) ==
    { q \in [1..Cardinality(keys) -> keys] :
        \A i, j \in 1..Cardinality(keys) : i # j => q[i] # q[j] }

-----------------------------------------------------------------------------
(* Definition time: the statements that construct a field and a class      *)

\* len(v): defined on str, list and dict, TypeError on the other values
PyLen(v) ==
    CASE v.t = "str" -> [ret |-> PyInt(Len(v.s)), exc |-> ""]
      [] v.t = "list" -> [ret |-> PyInt(Len(v.l)), exc |-> ""]
      [] v.t = "dict" -> [ret |-> PyInt(Cardinality(DOMAIN v.d)), exc |-> ""]
      [] OTHER -> [ret |-> None, exc |-> "TypeError"]

\* { v : k for k, v in choices.items() } for the items left: a later item
\* with an equal value replaces the key an earlier one stored
RECURSIVE Reversed(_, _, _)
Reversed(choices, keys, acc) ==
    IF keys = <<>> THEN acc
    ELSE Reversed(choices, Tail(keys),
                  IF \E w \in DOMAIN acc : PyEq(w, choices.d[Head(keys)])
                  THEN [w \in DOMAIN acc |->
                           IF PyEq(w, choices.d[Head(keys)]) THEN Head(keys) ELSE acc[w]]
                  ELSE [w \in DOMAIN acc \cup {choices.d[Head(keys)]} |->
                           IF w = choices.d[Head(keys)] THEN Head(keys) ELSE acc[w]])

\* reversed_choices == choices, the comparison of two dicts: the same keys
\* with equal values
DictEq(reversed_choices, choices) ==
    /\ Cardinality(DOMAIN reversed_choices) = Cardinality(DOMAIN choices.d)
    /\ \A w \in DOMAIN reversed_choices :
          /\ w.t = "str" /\ w.s \in DOMAIN choices.d
          /\ PyEq(choices.d[w.s], PyStr(reversed_choices[w]))

\* what a constructor leaves: the object's attributes when it returned, the
\* exception when it raised
Constructed(made, choices, reversed_choices, exc) ==
    [made |-> made, choices |-> choices, reversed_choices |-> reversed_choices, exc |-> exc]

\* Field.__init__(choices=choices): with a dict, builds reversed_choices and
\* takes len() of the comparison reversed_choices != choices
Field_init(choices) ==
    IF IsDict(choices)
    THEN Bind(Reversed(choices, Items(choices), <<>>), LAMBDA reversed_choices :
         Bind(PyLen(PyBool(~DictEq(reversed_choices, choices))), LAMBDA n :
              IF n.exc # "" THEN Constructed(FALSE, None, <<>>, n.exc)
              ELSE IF PyTruthy(n.ret)
                   THEN Constructed(FALSE, None, <<>>, "DictFieldError")
                   ELSE Constructed(TRUE, choices, reversed_choices, "")))
    ELSE Constructed(TRUE, choices, <<>>, "")

\* the keys and the values of the choices mappings
ChoiceNames == {"a", "b", "c"}

ChoiceValues == {PyInt(1), PyInt(2), PyStr("a")}

\* choices: no choices, or a mapping of one to three names to values
ChoiceMaps ==
    {None} \cup {PyDict(f) : f \in UNION {[S -> ChoiceValues] : S \in SUBSET ChoiceNames \ {{}}}}

\* the bases of a class statement: up to two of the classes, in either order
BaseLists ==
    {<<>>} \cup {<<b>> : b \in {"Book", "Pen", "Misc"}}
    \cup {q \in {<<b, c>> : b, c \in {"Book", "Pen", "Misc"}} : q[1] # q[2]}

\* the fields a class body declares: none, a type of its own, one more field
Bodies ==
    { <<>>,
      << Def("type", [StringField EXCEPT !.fixed_value = PyStr("gadget")]) >>,
      << Def("genre", StringField) >> }

\* a statement: pending until it runs, then with what it made
Statement(kind, choices, bases, cdict) ==
    [kind |-> kind, choices |-> choices, bases |-> bases, cdict |-> cdict,
     done |-> FALSE, field |-> Constructed(FALSE, None, <<>>, ""), fields |-> <<>>]

NoStatement == Statement("none", None, <<>>, <<>>)

-----------------------------------------------------------------------------
(* The state machine: a caller holds one document of one model and calls   *)
(* the model's class methods on it                                         *)

Init ==
    /\ cls \in Models
    /\ document \in Docs(cls)
    /\ op = "init"
    /\ arg = None
    /\ pre = document
    /\ flags = [set_default |-> TRUE, remove_undefined |-> TRUE]
    /\ raised = ""
    /\ errs = <<>>
    /\ returned = None
    /\ steps = 0
    /\ defn = NoStatement

\* cls.update(document, new_value); order is the order of new_value's items
Update(new_value, order) ==
    /\ steps < MaxSteps
    /\ LET r == update_items(cls, document, new_value, order)
       IN /\ document' = r.doc
          /\ raised' = r.exc
    /\ op' = "update"
    /\ arg' = new_value
    /\ pre' = document
    /\ errs' = <<>>
    /\ returned' = None
    /\ steps' = steps + 1
    /\ UNCHANGED <<cls, flags, defn>>

\* cls.clean_document(document, set_default, remove_undefined)
CleanDocument(set_default, remove_undefined) ==
    /\ steps < MaxSteps
    /\ LET r == clean_document(cls, document, set_default, remove_undefined)
       IN /\ document' = r.doc
          /\ raised' = r.exc
    /\ op' = "clean"
    /\ arg' = None
    /\ pre' = document
    /\ flags' = [set_default |-> set_default, remove_undefined |-> remove_undefined]
    /\ errs' = <<>>
    /\ returned' = None
    /\ steps' = steps + 1
    /\ UNCHANGED <<cls, defn>>

\* cls.get_document_errors(document) that normalises the document before it
\* walks it
GetDocumentErrors_cleaning ==
    /\ steps < MaxSteps
    /\ LET r == get_document_errors(cls, clean_document(cls, document, TRUE, TRUE).doc)
       IN /\ errs' = r.errs
          /\ raised' = r.exc
    /\ document' = clean_document(cls, document, TRUE, TRUE).doc
    /\ op' = "errors"
    /\ arg' = None
    /\ pre' = document
    /\ returned' = None
    /\ steps' = steps + 1
    /\ UNCHANGED <<cls, flags, defn>>

\* cls.get_document_errors(document)
GetDocumentErrors ==
    /\ steps < MaxSteps
    /\ LET r == get_document_errors(cls, document)
       IN /\ errs' = r.errs
          /\ raised' = r.exc
    /\ op' = "errors"
    /\ arg' = None
    /\ pre' = document
    /\ returned' = None
    /\ steps' = steps + 1
    /\ UNCHANGED <<cls, document, flags, defn>>

\* cls.is_document_valid(document)
IsDocumentValid ==
    /\ steps < MaxSteps
    /\ LET r == is_document_valid(cls, document)
       IN /\ returned' = r.ret
          /\ raised' = r.exc
    /\ op' = "valid"
    /\ arg' = None
    /\ pre' = document
    /\ errs' = <<>>
    /\ steps' = steps + 1
    /\ UNCHANGED <<cls, document, flags, defn>>

Next ==
    \/ \E new_value \in Patches(cls) :
         \E order \in Orders(DOMAIN new_value.d) : Update(new_value, order)
    \/ \E set_default, remove_undefined \in BOOLEAN :
         CleanDocument(set_default, remove_undefined)
    \/ GetDocumentErrors
    \/ IsDocumentValid

Spec == Init /\ [][Next]_vars

\* every operation stays inside what the operators model
Modelled == raised # "unmodelled"

\* the module runs one definition statement: a field with choices, or a
\* class with bases and a body
InitDef ==
    /\ defn \in {Statement("field", c, <<>>, <<>>) : c \in ChoiceMaps}
               \cup {Statement("class", None, b, d) : b \in BaseLists, d \in Bodies}
    /\ cls = "Product"
    /\ document = EmptyDict
    /\ op = "init"
    /\ arg = None
    /\ pre = EmptyDict
    /\ flags = [set_default |-> TRUE, remove_undefined |-> TRUE]
    /\ raised = ""
    /\ errs = <<>>
    /\ returned = None
    /\ steps = 0

\* StringField(choices=...): Field.__init__ runs
NewField ==
    /\ defn.kind = "field" /\ ~defn.done
    /\ defn' = [defn EXCEPT !.done = TRUE, !.field = Field_init(defn.choices)]
    /\ UNCHANGED <<cls, document, op, arg, pre, flags, raised, errs, returned, steps>>

\* class X(*bases): body -- DefinedDictMetaClass.__init__ runs
NewClass ==
    /\ defn.kind = "class" /\ ~defn.done
    /\ defn' = [defn EXCEPT !.done = TRUE,
                            !.fields = DefinedDictMetaClass_init(defn.bases, defn.cdict)]
    /\ UNCHANGED <<cls, document, op, arg, pre, flags, raised, errs, returned, steps>>

NextDef == NewField \/ NewClass

SpecDef == InitDef /\ [][NextDef]_vars

-----------------------------------------------------------------------------
(* Polymorphic update                                                      *)

\* the keys of the polymorphic fields of a model
PolyKeys(name) ==
    {k \in FieldKeys(name) : FieldOf(name, k).class = "VariableDefinedDictField"}

\* the tag of a sub-document of a polymorphic field
Tag(name, key, value) == Get(value, FieldOf(name, key).check_field)

\* the tag is a key of the candidate map
Known(name, key, tag) ==
    ~IsNone(tag) /\ Hashable(tag) /\ ModelsGet(FieldOf(name, key), tag) # ""

\* the last call was update with a mapping for the polymorphic slot key,
\* which held a mapping
PolyUpdate(key) ==
    /\ op = "update"
    /\ key \in PolyKeys(cls) /\ key \in DOMAIN arg.d
    /\ IsDict(arg.d[key]) /\ IsDict(Get(pre, key))

\* ... and both sub-documents carry the same tag, a key of the candidate map
SameTag(key) ==
    /\ PolyUpdate(key)
    /\ Known(cls, key, Tag(cls, key, pre.d[key]))
    /\ Tag(cls, key, arg.d[key]) = Tag(cls, key, pre.d[key])

\* ... and both sub-documents carry a tag, and the tags differ
SwitchTag(key) ==
    /\ PolyUpdate(key)
    /\ ~IsNone(Tag(cls, key, pre.d[key])) /\ ~IsNone(Tag(cls, key, arg.d[key]))
    /\ ~PyEq(Tag(cls, key, pre.d[key]), Tag(cls, key, arg.d[key]))

\* ... and exactly one of the sub-documents carries a tag, a key of the
\* candidate map
OneTag(key) ==
    /\ PolyUpdate(key)
    /\ IsNone(Tag(cls, key, pre.d[key])) # IsNone(Tag(cls, key, arg.d[key]))
    /\ Known(cls, key, IF IsNone(Tag(cls, key, pre.d[key]))
                       THEN Tag(cls, key, arg.d[key]) ELSE Tag(cls, key, pre.d[key]))

\* the classes whose update is Field.update
AssigningClasses == {"Field", "StringField", "IntField", "BoolField", "ListField"}

\* patch entries laid over the entries of an existing map (or of None)
Overlaid(old, new) ==
    PyDict([k \in DOMAIN old.d \cup DOMAIN new.d |->
               IF k \in DOMAIN new.d THEN new.d[k] ELSE old.d[k]])

\* a map field of model holds a value with no get method and the patch has
\* entries for it
BadMap(model, old, new) ==
    \E k \in DOMAIN new.d \cap FieldKeys(model) :
        /\ FieldOf(model, k).class = "MapField"
        /\ IsDict(new.d[k]) /\ DOMAIN new.d[k].d # {}
        /\ ~IsNone(Get(old, k)) /\ ~IsDict(Get(old, k))

\* the patch keys of model's fields whose update writes the slot for this
\* patch value: a map field ignores a value that is no mapping
Written(model, new) ==
    {k \in DOMAIN new.d \cap FieldKeys(model) :
        FieldOf(model, k).class = "MapField" => IsDict(new.d[k])}

\* result keeps old, but for the patch keys model declares
KeepsRest(model, old, new, result) ==
    /\ IsDict(result)
    /\ DOMAIN result.d = DOMAIN old.d \cup Written(model, new)
    /\ \A k \in DOMAIN old.d :
          k \notin DOMAIN new.d \cap FieldKeys(model) => result.d[k] = old.d[k]

\* every patch key model declares holds the patch value
SetsPatchValues(model, new, result) ==
    \A k \in DOMAIN new.d \cap FieldKeys(model) : Get(result, k) = new.d[k]

\* every patch key model declares went through its field's update
AppliesPatch(model, old, new, result) ==
    \A k \in DOMAIN new.d \cap FieldKeys(model) :
        /\ FieldOf(model, k).class \in AssigningClasses => Get(result, k) = new.d[k]
        /\ FieldOf(model, k).class = "MapField" =>
              Get(result, k) = IF IsDict(new.d[k])
                                  /\ (IsNone(Get(old, k)) \/ IsDict(Get(old, k)))
                               THEN Overlaid(Get(old, k), new.d[k])
                               ELSE Get(old, k)

\* the model the tag of the existing or of the incoming sub-document names
Resolved(key) ==
    ModelsGet(FieldOf(cls, key),
              IF IsNone(Tag(cls, key, pre.d[key])) THEN Tag(cls, key, arg.d[key])
              ELSE Tag(cls, key, pre.d[key]))

\* C1 as stated: with the same known tag on both sides, update keeps the
\* existing sub-document but for the patch keys the resolved model declares,
\* and each of these holds the patch value
C1_SetsPatchValue ==
    \A key \in PolyKeys(cls) :
        SameTag(key) /\ raised = "" =>
            /\ KeepsRest(Resolved(key), pre.d[key], arg.d[key], Get(document, key))
            /\ SetsPatchValues(Resolved(key), arg.d[key], Get(document, key))

\* C1: with the same known tag on both sides, an update that returns keeps
\* the existing sub-document but for the patch keys the resolved model
\* declares, and each of these went through its field's update: an assigning
\* field holds the patch value, a map field holds the patch entries laid over
\* its old entries (and keeps its value when the patch value is no mapping);
\* the update raises when a map field holds a value that is neither None nor
\* a mapping and the patch has entries for it, and a patch of the one key
\* raises in no other case
C1_AppliesFieldUpdate ==
    \A key \in PolyKeys(cls) :
        SameTag(key) =>
            /\ raised = "" =>
                  /\ KeepsRest(Resolved(key), pre.d[key], arg.d[key], Get(document, key))
                  /\ AppliesPatch(Resolved(key), pre.d[key], arg.d[key], Get(document, key))
            /\ BadMap(Resolved(key), pre.d[key], arg.d[key]) => raised = "AttributeError"
            /\ DOMAIN arg.d = {key} /\ raised # "" =>
                  BadMap(Resolved(key), pre.d[key], arg.d[key])

\* a map field of the sub-document has merged: it holds an old entry the
\* patch did not name and a patch entry it did not hold
C1_Witness ==
    \E key \in PolyKeys(cls) :
        /\ SameTag(key) /\ raised = ""
        /\ \E k \in DOMAIN arg.d[key].d \cap FieldKeys(Resolved(key)) :
              /\ FieldOf(Resolved(key), k).class = "MapField"
              /\ IsDict(arg.d[key].d[k]) /\ IsDict(Get(pre.d[key], k))
              /\ DOMAIN pre.d[key].d[k].d \ DOMAIN arg.d[key].d[k].d # {}
              /\ DOMAIN arg.d[key].d[k].d \ DOMAIN pre.d[key].d[k].d # {}
              /\ document.d[key].d[k] = Overlaid(pre.d[key].d[k], arg.d[key].d[k])

\* C2: with two different tags, neither None, the slot holds exactly the
\* incoming sub-document once update returns, and a patch of the one key
\* always returns
C2_SchemaSwitch ==
    \A key \in PolyKeys(cls) :
        SwitchTag(key) =>
            /\ raised = "" => Get(document, key) = arg.d[key]
            /\ DOMAIN arg.d = {key} => raised = ""

\* a book became a pen: a key of the old sub-document is gone
C2_Witness ==
    \E key \in PolyKeys(cls) :
        /\ SwitchTag(key) /\ raised = ""
        /\ DOMAIN pre.d[key].d \ DOMAIN arg.d[key].d # {}
        /\ document.d[key] = arg.d[key]

\* C3 as stated: when the slot is None or missing, or the incoming value is
\* None, update leaves the incoming value (a mapping or None) in the slot
C3_NullReplaces ==
    \A key \in PolyKeys(cls) :
        /\ op = "update" /\ raised = "" /\ key \in DOMAIN arg.d
        /\ IsNone(arg.d[key]) \/ IsDict(arg.d[key])
        /\ IsNone(Get(pre, key)) \/ IsNone(arg.d[key])
        => Get(document, key) = arg.d[key]

\* C4 as stated: with a known tag on one side only, a patch of the one key
\* merges into the existing sub-document through the model of that tag, and
\* adds no key the model does not declare
C4_OneTagMerges ==
    \A key \in PolyKeys(cls) :
        OneTag(key) /\ DOMAIN arg.d = {key}
        /\ ~BadMap(Resolved(key), pre.d[key], arg.d[key])
        => /\ raised = ""
           /\ KeepsRest(Resolved(key), pre.d[key], arg.d[key], Get(document, key))
           /\ AppliesPatch(Resolved(key), pre.d[key], arg.d[key], Get(document, key))

\* C5: update leaves every top-level key the patch does not name as it was,
\* and neither adds nor changes a patch key the model does not declare,
\* whether it returns or raises
C5_UpdateFrame ==
    op = "update" =>
        /\ IsDict(document)
        /\ DOMAIN document.d \subseteq DOMAIN pre.d \cup (DOMAIN arg.d \cap FieldKeys(cls))
        /\ DOMAIN pre.d \subseteq DOMAIN document.d
        /\ \A k \in DOMAIN pre.d :
              k \notin DOMAIN arg.d \cap FieldKeys(cls) => document.d[k] = pre.d[k]

\* a patch with a declared and an undeclared key has been applied to a
\* document with other keys
C5_Witness ==
    /\ op = "update" /\ raised = ""
    /\ DOMAIN arg.d \ FieldKeys(cls) # {}
    /\ DOMAIN pre.d \ DOMAIN arg.d # {}
    /\ \E k \in DOMAIN arg.d \cap FieldKeys(cls) : document.d[k] # Get(pre, k)

-----------------------------------------------------------------------------
(* clean_document                                                          *)

\* the last call was clean_document with both flags set, and it returned
Cleaned ==
    /\ op = "clean" /\ raised = ""
    /\ flags.set_default /\ flags.remove_undefined

\* every polymorphic sub-document carries the tag it carried before the call
TagsKept ==
    \A key \in PolyKeys(cls) :
        IsDict(Get(document, key)) =>
            Tag(cls, key, document.d[key]) = Tag(cls, key, Get(pre, key))

\* C6 as stated: cleaning a cleaned document again, with set_default and
\* remove_undefined, returns and changes nothing
C6_CleanIdempotent ==
    Cleaned => clean_document(cls, document, TRUE, TRUE) = Mutated(document, "")

\* C6: cleaning a cleaned document again, with set_default and
\* remove_undefined, returns and changes nothing, provided the first clean
\* left the tag of every polymorphic sub-document as it was
C6_CleanIdempotentKeptTags ==
    Cleaned /\ TagsKept =>
        clean_document(cls, document, TRUE, TRUE) = Mutated(document, "")

\* a clean that changed the document and one of its sub-documents, keeping
\* the tag
C6_Witness ==
    /\ Cleaned /\ TagsKept
    /\ document # pre
    /\ \E key \in PolyKeys(cls) :
          IsDict(Get(document, key)) /\ document.d[key] # Get(pre, key)
    /\ \E key \in FieldKeys(cls) : key \notin DOMAIN pre.d /\ IsDict(Get(document, key))

\* the model clean_document resolved for the sub-document of a polymorphic
\* slot
CleanedWith(key) == ModelsGet(FieldOf(cls, key), Tag(cls, key, Get(pre, key)))

\* C7: after a clean_document with remove_undefined that returned, the
\* document has no key but the model's fields, and every fixed-schema or
\* polymorphic sub-document has no key but the fields of the model it was
\* cleaned with; without remove_undefined the document and its
\* sub-documents keep every key they had
C7_UndefinedStripped ==
    op = "clean" =>
        IF flags.remove_undefined
        THEN raised = "" =>
                /\ DOMAIN document.d \subseteq FieldKeys(cls)
                /\ \A key \in FieldKeys(cls) :
                      /\ FieldOf(cls, key).class = "DefinedDictField"
                      /\ IsDict(Get(document, key))
                      => DOMAIN document.d[key].d \subseteq FieldKeys(FieldOf(cls, key).model)
                /\ \A key \in PolyKeys(cls) :
                      IsDict(Get(document, key)) =>
                          /\ CleanedWith(key) # ""
                          /\ DOMAIN document.d[key].d \subseteq FieldKeys(CleanedWith(key))
        ELSE /\ DOMAIN pre.d \subseteq DOMAIN document.d
             /\ \A key \in DOMAIN pre.d :
                   IsDict(pre.d[key]) =>
                       /\ IsDict(document.d[key])
                       /\ DOMAIN pre.d[key].d \subseteq DOMAIN document.d[key].d

\* a clean with remove_undefined took a key from the document and a key from
\* a sub-document
C7_Witness ==
    /\ op = "clean" /\ raised = "" /\ flags.remove_undefined
    /\ DOMAIN pre.d \ DOMAIN document.d # {}
    /\ \E key \in DOMAIN pre.d \cap DOMAIN document.d :
          /\ IsDict(pre.d[key]) /\ IsDict(document.d[key])
          /\ DOMAIN pre.d[key].d \ DOMAIN document.d[key].d # {}

-----------------------------------------------------------------------------
(* get_document_errors                                                     *)

\* the classes of the model
ModelNames ==
    {"Book", "Pen", "Product", "Novel", "Misc", "Cart", "Order", "Event", "Line", "Basket"}

\* the paths of the errors of the slot key: the key and the key followed by
\* a key of a sub-document
SlotPaths(key) == {key} \cup {Join(key, k) : k \in Range(KeyOrder)}

\* the errors of es under the slot key
SlotErrors(es, key) == SelectSeq(es, LAMBDA e : e[1] \in SlotPaths(key))

\* what a slot without a value yields
AbsenceErrors(f, with_key) ==
    IF f.is_required THEN << <<with_key, ERROR_IS_REQUIRED, None>> >> ELSE <<>>

\* C8: the errors of a document do not change when a key it does not hold is
\* set to None, or a key it holds with None is removed; a slot without a
\* value yields one required error when its field is required and nothing
\* otherwise, for every field of every model
C8_AbsenceEquivalence ==
    op = "errors" =>
        /\ \A key \in FieldKeys(cls) :
              /\ get_document_errors(cls, Pop(document, {key}))
                    = get_document_errors(cls, Put(document, key, None))
              /\ IsNone(Get(document, key)) =>
                    /\ Yielded(errs, raised) = get_document_errors(cls, Pop(document, {key}))
                    /\ raised = "" =>
                          SlotErrors(errs, key) = AbsenceErrors(FieldOf(cls, key), key)
        /\ \A name \in ModelNames :
              \A key \in FieldKeys(name) :
                  field_errors(FieldOf(name, key), None, key)
                      = Yielded(AbsenceErrors(FieldOf(name, key), key), "")

\* the errors of a document that holds a required key with None and misses
\* another required key
C8_Witness ==
    /\ op = "errors" /\ raised = ""
    /\ \E key \in DOMAIN document.d :
          /\ key \in FieldKeys(cls) /\ FieldOf(cls, key).is_required
          /\ IsNone(document.d[key])
          /\ SlotErrors(errs, key) = << <<key, ERROR_IS_REQUIRED, None>> >>
    /\ \E key \in FieldKeys(cls) \ DOMAIN document.d :
          /\ FieldOf(cls, key).is_required
          /\ SlotErrors(errs, key) = << <<key, ERROR_IS_REQUIRED, None>> >>
    /\ \E key \in FieldKeys(cls) \ DOMAIN document.d : ~FieldOf(cls, key).is_required

\* C9 as stated: a polymorphic field whose sub-document is a mapping yields
\* the one error (field.tag key, required, None) when the tag is missing or
\* None, and the one error (field.tag key, value, tag) when the tag is no key
\* of the candidate map
C9_UnresolvedTag ==
    op = "errors" =>
        \A key \in PolyKeys(cls) :
            IsDict(Get(document, key)) =>
                /\ IsNone(Tag(cls, key, document.d[key])) =>
                      field_errors(FieldOf(cls, key), document.d[key], key)
                          = Yielded(<< <<Join(key, FieldOf(cls, key).check_field),
                                         ERROR_IS_REQUIRED, None>> >>, "")
                /\ /\ ~IsNone(Tag(cls, key, document.d[key]))
                   /\ ~Known(cls, key, Tag(cls, key, document.d[key]))
                   => field_errors(FieldOf(cls, key), document.d[key], key)
                          = Yielded(<< <<Join(key, FieldOf(cls, key).check_field),
                                         ERROR_VALUE, Tag(cls, key, document.d[key])>> >>, "")

\* errors with the paths under key
Prefixed(key, es) == [i \in DOMAIN es |-> <<Join(key, es[i][1]), es[i][2], es[i][3]>>]

\* the place of key in the fields of a model
IndexOf(name, key) == CHOOSE i \in DOMAIN Fields(name) : Fields(name)[i].key = key

\* the errors of a document and the errors of the slot key in them, when the
\* slot yields slot
ErrorsAround(name, doc, key, slot) ==
    Then(Then(yield_errors(SubSeq(Fields(name), 1, IndexOf(name, key) - 1), doc, ""), slot),
         yield_errors(SubSeq(Fields(name), IndexOf(name, key) + 1, Len(Fields(name))),
                      doc, ""))

\* C10: a polymorphic sub-document with a known tag yields the errors its
\* resolved model reports for it, each path prefixed with the field's key,
\* and nothing else: the errors of the document are these, between the
\* errors of the fields before and after; the product with a book without id
\* yields (product_info.id, required, None), and nothing once the id matches
C10_ResolvedModelOnly ==
    op = "errors" =>
        /\ \A key \in PolyKeys(cls) :
              IsDict(Get(document, key)) /\ Known(cls, key, Tag(cls, key, document.d[key])) =>
                  Yielded(errs, raised)
                      = ErrorsAround(cls, document, key,
                            Yielded(Prefixed(key,
                                        get_document_errors(
                                            ModelsGet(FieldOf(cls, key),
                                                      Tag(cls, key, document.d[key])),
                                            document.d[key]).errs),
                                    get_document_errors(
                                        ModelsGet(FieldOf(cls, key),
                                                  Tag(cls, key, document.d[key])),
                                        document.d[key]).exc))
        /\ cls = "Product"
           /\ document = Put(ProductBase, "product_info", PyDict("type" :> PyStr("book")))
           => raised = "" /\ errs = << <<"product_info.id", ERROR_IS_REQUIRED, None>> >>
        /\ cls = "Product" /\ document = Put(ProductBase, "product_info", BookDoc)
           => raised = "" /\ errs = <<>>

\* the errors of the product with a book without id
C10_Witness ==
    /\ op = "errors" /\ cls = "Product" /\ raised = ""
    /\ document = Put(ProductBase, "product_info", PyDict("type" :> PyStr("book")))
    /\ errs = << <<"product_info.id", ERROR_IS_REQUIRED, None>> >>

-----------------------------------------------------------------------------
(* Validation: what raises, what is_document_valid returns                 *)

\* C11 as stated: get_document_errors and is_document_valid return for every
\* document, they never raise
C11_ValidationNeverRaises ==
    op \in {"errors", "valid"} => raised = ""

\* the fields of the model after the first field that yields an error
LaterKeys(name, doc) ==
    {Fields(name)[j].key : j \in
        {j \in DOMAIN Fields(name) :
            \E i \in 1..(j - 1) :
                yield_errors(SubSeq(Fields(name), 1, i), doc, "").errs # <<>>}}

\* values of a slot of any type
SlotValues == {None, PyStr("x"), PyInt(5), PyList(<<PyStr("red")>>), EmptyDict}

\* C12: is_document_valid returns True exactly when get_document_errors
\* returns the empty list, and False exactly when the walk yields an error
\* before anything raises; its answer is then the same whatever the slots of
\* the fields after the first one with an error hold
C12_ValidAgreesWithErrors ==
    op = "valid" =>
        /\ returned = PyBool(TRUE) <=> get_document_errors(cls, document) = Yielded(<<>>, "")
        /\ returned = PyBool(FALSE) <=> get_document_errors(cls, document).errs # <<>>
        /\ raised # "" <=> returned = None
        /\ \A key \in LaterKeys(cls, document) :
              \A v \in SlotValues :
                  is_document_valid(cls, Put(document, key, v))
                      = [ret |-> returned, exc |-> raised]

\* is_document_valid answered False on a document whose full walk raises
\* after its first error
C12_Witness ==
    /\ op = "valid" /\ returned = PyBool(FALSE)
    /\ get_document_errors(cls, document).exc # ""
    /\ LaterKeys(cls, document) # {}

-----------------------------------------------------------------------------
(* Type errors and value errors of a slot                                  *)

\* the type errors among es at the path with_key
TypeErrors(es, with_key) ==
    SelectSeq(es, LAMBDA e : e[1] = with_key /\ e[2] = ERROR_TYPE)

\* the value errors among es at the path with_key
ValueErrors(es, with_key) ==
    SelectSeq(es, LAMBDA e : e[1] = with_key /\ e[2] = ERROR_VALUE)

\* the fields of a model that constrain the runtime type
TypedKeys(name) == {key \in FieldKeys(name) : FieldOf(name, key).allowed_type # {}}

\* C13 as stated: the slot of a type-constrained field that holds a non-null
\* value yields exactly one (path, type, value) error when the value fails
\* the field's isinstance check, and no type error when it passes
C13_OneTypeError ==
    op = "errors" =>
        \A key \in TypedKeys(cls) :
            IsNotNone(Get(document, key)) =>
                TypeErrors(field_errors(FieldOf(cls, key), document.d[key], key).errs, key)
                    = IF IsInstance(document.d[key], FieldOf(cls, key).allowed_type)
                      THEN <<>>
                      ELSE << <<key, ERROR_TYPE, document.d[key]>> >>

\* C14 as stated: a slot that yields a value error holds a non-null value
\* that passes the field's isinstance check, so the errors of a document
\* never hold a type error and a value error for the same slot
C14_ValueOnlyWhenTyped ==
    op = "errors" =>
        \A key \in TypedKeys(cls) :
            ValueErrors(errs, key) # <<>> =>
                /\ IsNotNone(Get(document, key))
                /\ IsInstance(Get(document, key), FieldOf(cls, key).allowed_type)
                /\ TypeErrors(errs, key) = <<>>

-----------------------------------------------------------------------------
(* Number bounds                                                           *)

\* the number fields of a model that have no choices
NumberKeys(name) ==
    {key \in FieldKeys(name) :
        /\ FieldOf(name, key).class \in {"IntField", "FloatField"}
        /\ ~FieldOf(name, key).has_choices}

\* a number field with the bounds of the tests: min only (price), max only
\* (published_year), both (copies) or none
Bounded(has_min, has_max) ==
    NumberField([IntField EXCEPT !.has_min = has_min, !.min = MinCopies,
                                 !.has_max = has_max, !.max = MaxCopies])

\* v < min when min is set, or v > max when max is set
OutOfBounds(f, v) ==
    \/ f.has_min /\ v.n < 10 * f.min
    \/ f.has_max /\ v.n > 10 * f.max

C16_BoundsAsDocumented ==
    op = "errors" =>
        /\ \A key \in NumberKeys(cls) :
              /\ /\ FieldOf(cls, key).has_min
                 /\ Get(document, key) = PyInt(FieldOf(cls, key).min)
                 => SlotErrors(errs, key) = <<>>
              /\ /\ FieldOf(cls, key).has_max
                 /\ Get(document, key) = PyInt(FieldOf(cls, key).max)
                 => SlotErrors(errs, key) = << <<key, ERROR_VALUE, document.d[key]>> >>
        /\ \A key \in FieldKeys(cls) :
              /\ FieldOf(cls, key).class \in {"IntField", "FloatField"}
              /\ FieldOf(cls, key).has_choices
              /\ Get(document, key) \in FieldOf(cls, key).choices
              => SlotErrors(errs, key) = <<>>

-----------------------------------------------------------------------------
(* Definition time: the field map of a class, the choices of a field       *)

\* the definition a field map holds for key
FieldIn(fields, key) == (CHOOSE e \in Range(fields) : e.key = key).definition

\* the keys of a field map
KeysIn(fields) == {e.key : e \in Range(fields)}

\* the first of the bases, in declaration order, that has a field key
FirstBase(bases, key) ==
    bases[CHOOSE i \in DOMAIN bases :
             /\ key \in FieldKeys(bases[i])
             /\ \A j \in 1..(i - 1) : key \notin FieldKeys(bases[j])]

\* C17 as stated: the field map of a class holds the keys of its bases and
\* of its body; a key the body declares has the body's field, and a key only
\* bases declare has the field of the earliest base that declares it
C17_FieldMapComposition ==
    defn.kind = "class" /\ defn.done =>
        /\ KeysIn(defn.fields)
              = KeysIn(defn.cdict) \cup UNION {FieldKeys(defn.bases[i]) : i \in DOMAIN defn.bases}
        /\ \A key \in KeysIn(defn.fields) :
              FieldIn(defn.fields, key)
                  = IF key \in KeysIn(defn.cdict) THEN FieldIn(defn.cdict, key)
                    ELSE FieldOf(FirstBase(defn.bases, key), key)

\* distinct keys of the mapping hold distinct values
OneToOne(choices) ==
    \A k1, k2 \in DOMAIN choices.d : PyEq(choices.d[k1], choices.d[k2]) => k1 = k2

\* C18 as stated: a field whose choices is a one-to-one mapping is
\* constructed and records the mapping from each value back to its key; a
\* field whose choices mapping gives two keys the same value raises
\* DictFieldError
C18_ChoicesBijection ==
    defn.kind = "field" /\ defn.done /\ IsDict(defn.choices) =>
        IF OneToOne(defn.choices)
        THEN /\ defn.field.made /\ defn.field.exc = ""
             /\ defn.field.reversed_choices
                   = [v \in {defn.choices.d[k] : k \in DOMAIN defn.choices.d} |->
                         CHOOSE k \in DOMAIN defn.choices.d : defn.choices.d[k] = v]
        ELSE ~defn.field.made /\ defn.field.exc = "DictFieldError"

-----------------------------------------------------------------------------
(* clean_document: fixed values and defaults                               *)

\* the fields of a model configured with a fixed value
FixedKeys(name) == {key \in FieldKeys(name) : IsNotNone(FieldOf(name, key).fixed_value)}

\* C19 as stated: after clean_document the slot of every field configured
\* with a fixed_value holds that value, whatever the field's kind, the
\* slot's content before and set_default
C19_FixedValueWins ==
    op = "clean" /\ raised = "" =>
        \A key \in FixedKeys(cls) :
            Get(document, key) = FieldOf(cls, key).fixed_value

\* the fields that hold a plain value
Scalar(f) == f.class \in {"StringField", "IntField", "FloatField", "BoolField"}

\* a default: the value a callable returns for the field, a literal as it is
DefaultOf(f) ==
    IF f.default.t = "callable" THEN Call(f.default, f) ELSE f.default

\* C20 as stated: when clean_document returns, with set_default a declared
\* key the document did not hold holds the field's default (the nested
\* model's make_default() document for a fixed-schema field without a
\* default); a key the document held keeps its value; without set_default a
\* scalar field's absent key stays absent
C20_DefaultsOnClean ==
    op = "clean" /\ raised = "" =>
        \A key \in FieldKeys(cls) :
            /\ flags.set_default /\ key \notin DOMAIN pre.d =>
                  /\ key \in DOMAIN document.d
                  /\ document.d[key]
                        = IF /\ FieldOf(cls, key).class = "DefinedDictField"
                             /\ IsNone(FieldOf(cls, key).default)
                          THEN model_make_default(Fields(FieldOf(cls, key).model))
                          ELSE DefaultOf(FieldOf(cls, key))
            /\ key \in DOMAIN pre.d =>
                  key \in DOMAIN document.d /\ document.d[key] = pre.d[key]
            /\ ~flags.set_default /\ Scalar(FieldOf(cls, key)) /\ key \notin DOMAIN pre.d =>
                  key \notin DOMAIN document.d

\* C20, amended: when clean_document returns, for the fields without a
\* fixed_value: with set_default an absent key of a String, Int, Float or
\* Bool field holds the field's default (a callable called with the field, a
\* literal as it is), and an absent key of a fixed-schema field without a
\* default holds the nested model's make_default() document cleaned by the
\* nested model with the same flags; a present key of a String, Int, Float or
\* Bool field keeps its value; without set_default an absent key of such a
\* field stays absent
C20_DefaultsOnCleanUnfixed ==
    op = "clean" /\ raised = "" =>
        \A key \in FieldKeys(cls) \ FixedKeys(cls) :
            /\ flags.set_default /\ key \notin DOMAIN pre.d /\ Scalar(FieldOf(cls, key)) =>
                  key \in DOMAIN document.d /\ document.d[key] = DefaultOf(FieldOf(cls, key))
            /\ /\ flags.set_default /\ key \notin DOMAIN pre.d
               /\ FieldOf(cls, key).class = "DefinedDictField"
               /\ IsNone(FieldOf(cls, key).default)
               => /\ key \in DOMAIN document.d
                  /\ document.d[key]
                        = clean_document(FieldOf(cls, key).model,
                                         model_make_default(Fields(FieldOf(cls, key).model)),
                                         TRUE, flags.remove_undefined).doc
            /\ key \in DOMAIN pre.d /\ Scalar(FieldOf(cls, key)) =>
                  key \in DOMAIN document.d /\ document.d[key] = pre.d[key]
            /\ ~flags.set_default /\ key \notin DOMAIN pre.d /\ Scalar(FieldOf(cls, key)) =>
                  key \notin DOMAIN document.d

\* an order cleaned with set_default: the label it did not hold is what its
\* callable default returns for the field, the quantity it held is kept
C20_Witness ==
    /\ op = "clean" /\ raised = "" /\ cls = "Order" /\ flags.set_default
    /\ "label" \notin DOMAIN pre.d /\ "qty" \in DOMAIN pre.d
    /\ FieldOf(cls, "label").default.t = "callable"
    /\ document.d["label"] = PyStr("StringField")
    /\ document.d["qty"] = pre.d["qty"]

-----------------------------------------------------------------------------
(* clean_document and update: completion, purity of the errors walk        *)

\* C21 as stated: clean_document and update return for every document and
\* patch, they never raise
C21_NormalizersNeverFail ==
    op \in {"clean", "update"} => raised = ""

-----------------------------------------------------------------------------
(* update through a fixed-schema field                                     *)

\* the keys of a model that a DefinedDictField declares
NestedKeys(name) ==
    {key \in FieldKeys(name) : FieldOf(name, key).class = "DefinedDictField"}

\* the call the update in this state made for a fixed-schema key of its patch
NestedUpdate(key) == field_update(FieldOf(cls, key), pre, key, arg.d[key])

\* every patch key model declares holds what its field's update leaves there
ThroughUpdate(model, old, new, result) ==
    \A k \in DOMAIN new.d \cap FieldKeys(model) :
        Get(result, k) = Get(field_update(FieldOf(model, k), old, k, new.d[k]).doc, k)

\* C23: update with a mapping under a fixed-schema key: a slot that is None
\* or missing becomes the incoming mapping; a slot that holds a sub-document
\* keeps it, every patch key the nested model declares goes through its
\* field's update, the other keys of the sub-document stay as they were, and
\* the patch keys the nested model does not declare are dropped, without an
\* exception when the patch names no declared key at all; the update that
\* returned left that slot so
C23_NestedUpdate ==
    op = "update" =>
        \A key \in NestedKeys(cls) \cap DOMAIN arg.d :
            IsDict(arg.d[key]) =>
                /\ IsNone(Get(pre, key)) =>
                      NestedUpdate(key) = Mutated(Put(pre, key, arg.d[key]), "")
                /\ IsDict(Get(pre, key)) /\ NestedUpdate(key).exc = "" =>
                      /\ KeepsRest(FieldOf(cls, key).model, pre.d[key], arg.d[key],
                                   Get(NestedUpdate(key).doc, key))
                      /\ ThroughUpdate(FieldOf(cls, key).model, pre.d[key], arg.d[key],
                                       Get(NestedUpdate(key).doc, key))
                /\ IsDict(Get(pre, key))
                      /\ DOMAIN arg.d[key].d \cap FieldKeys(FieldOf(cls, key).model) = {} =>
                      NestedUpdate(key) = Mutated(pre, "")
                /\ raised = "" => Get(document, key) = Get(NestedUpdate(key).doc, key)

\* an update merged a patch into the sub-document of a fixed-schema key: an
\* int went into a float field as a float, an undeclared patch key was
\* dropped and the keys the patch does not name stayed
C23_Witness ==
    /\ op = "update" /\ raised = "" /\ cls = "Basket"
    /\ "line" \in DOMAIN arg.d /\ IsDict(arg.d["line"])
    /\ IsDict(Get(pre, "line")) /\ IsDict(Get(document, "line"))
    /\ arg.d["line"].d = ("price" :> PyInt(3) @@ "bogus" :> PyInt(1))
    /\ "bogus" \notin DOMAIN document.d["line"].d
    /\ Get(document.d["line"], "price") = PyFloat(30)
    /\ Get(pre.d["line"], "price") = PyFloat(25)
    /\ Get(document.d["line"], "qty") = PyInt(1)

-----------------------------------------------------------------------------
(* clean_document on list fields                                           *)

\* the keys of a model that a ListField declares
ListKeys(name) == {key \in FieldKeys(name) : FieldOf(name, key).class = "ListField"}

\* a ListField whose inner type is a DefinedDictField
ListOfDocuments(f) ==
    f.inner_type # <<>> /\ f.inner_type[1].class = "DefinedDictField"

\* the items of a list that the field keeps, in their order
Kept(f, list) == IF f.remove_none_value THEN SelectSeq(list.l, IsNotNone) ELSE list.l

\* an item of a list after the clean_document of this state
CleanedItem(f, item) ==
    IF ListOfDocuments(f)
    THEN clean_document(f.inner_type[1].model, item, flags.set_default,
                        flags.remove_undefined).doc
    ELSE item

\* C24: after a clean_document that returned, for every ListField of the
\* model: with ensure_list the slot is present and not None, and a slot
\* that was None or missing holds the empty list, whatever set_default is;
\* with remove_none_value a slot holding a list holds no None item; the
\* items of a list that was in the slot are the items that were kept, in
\* their order, each one cleaned against the nested model when the inner
\* type is a DefinedDictField, so that cleaning an item again changes nothing
C24_ListClean ==
    op = "clean" /\ raised = "" =>
        \A key \in ListKeys(cls) :
            /\ FieldOf(cls, key).ensure =>
                  /\ key \in DOMAIN document.d /\ ~IsNone(document.d[key])
                  /\ IsNone(Get(pre, key)) => document.d[key] = PyList(<<>>)
            /\ FieldOf(cls, key).remove_none_value /\ IsList(Get(document, key)) =>
                  \A i \in DOMAIN document.d[key].l : ~IsNone(document.d[key].l[i])
            /\ IsList(Get(pre, key)) =>
                  /\ IsList(Get(document, key))
                  /\ Len(document.d[key].l) = Len(Kept(FieldOf(cls, key), pre.d[key]))
                  /\ \A i \in DOMAIN document.d[key].l :
                        /\ document.d[key].l[i] =
                              CleanedItem(FieldOf(cls, key),
                                          Kept(FieldOf(cls, key), pre.d[key])[i])
                        /\ CleanedItem(FieldOf(cls, key), document.d[key].l[i]) =
                              document.d[key].l[i]

\* a clean_document with set_default off dropped a None item between two
\* documents of a list, cleaned the two documents in their order and put the
\* empty list in a missing slot
C24_Witness ==
    /\ op = "clean" /\ raised = "" /\ cls = "Basket" /\ ~flags.set_default
    /\ IsList(Get(pre, "pens")) /\ Len(pre.d["pens"].l) = 3
    /\ IsNone(pre.d["pens"].l[2])
    /\ IsList(Get(document, "pens")) /\ Len(document.d["pens"].l) = 2
    /\ Get(document.d["pens"].l[1], "color") = PyStr("blue")
    /\ Get(document.d["pens"].l[2], "color") = PyStr("red")
    /\ Get(document.d["pens"].l[2], "type") = PyStr("pen")
    /\ "type" \notin DOMAIN pre.d["pens"].l[3].d
    /\ "extras" \notin DOMAIN pre.d /\ Get(document, "extras") = PyList(<<>>)

-----------------------------------------------------------------------------
(* clean_document and the key set of the document                          *)

\* C25: after a clean_document with set_default and remove_undefined on
\* that returned, the keys of the document are the keys of the field map of
\* its class, no fewer and no more, which are the keys of make_default()
C25_CleanFixesKeys ==
    op = "clean" /\ raised = "" /\ flags.set_default /\ flags.remove_undefined =>
        /\ IsDict(document)
        /\ DOMAIN document.d = FieldKeys(cls)
        /\ DOMAIN document.d = DOMAIN model_make_default(Fields(cls)).d

\* such a clean_document put None in a polymorphic slot that was absent and
\* removed a key the class does not declare
C25_Witness ==
    /\ op = "clean" /\ raised = "" /\ flags.set_default /\ flags.remove_undefined
    /\ \E key \in PolyKeys(cls) : key \notin DOMAIN pre.d /\ IsNone(Get(document, key))
                                   /\ key \in DOMAIN document.d
    /\ \E key \in DOMAIN pre.d : key \notin FieldKeys(cls) /\ key \notin DOMAIN document.d

====
